---- MODULE Spec2Model ----
(***************************************************************************)
(* A model of iouring.Ring (src/ring.go): the constructor New, the         *)
(* lock-free slot allocator Ring.Sqe, the identifier counter Ring.Idx, the *)
(* reads Ring.SubmitHead / SubmitTail, Ring.Enter, and Ring.Close with its *)
(* two guarded unmap steps.  Every goroutine is a thread of the model      *)
(* with a program counter; each atomic operation, syscall or critical      *)
(* section of the source is one step.                                      *)
(*                                                                         *)
(* TLC's integers are 32-bit signed, so the 2^32 wrap of the uint32 head   *)
(* and the 2^64 wrap of the identifier counter are outside the model: the  *)
(* bounds below keep both counters far from their width.                   *)
(***************************************************************************)
EXTENDS Integers, Sequences, FiniteSets, TLC

\* ------------------------------------------------------------------ bounds
\* The largest sq.Size, the capacity of the submission ring, a ring is built with.
RingSize == 2
\* Number of goroutines calling into the ring.
NumThreads == 2
\* Total number of Ring.Sqe invocations in a run.
MaxSqeCalls == 3
\* Largest value the submission tail is advanced to.
MaxTail == 2
\* Total number of Ring.Idx invocations in a run.
MaxIdxCalls == 6

Threads == 1..NumThreads

\* --------------------------------------------------------------- constants
\* io_uring_params->features bit 0.
FeatSingleMmap == 1
\* io_uring_params->features bit 1.
FeatNoDrop == 2

\* The feature words the kernel may report (bits 0 and 1).
FeatureWords == 0..(FeatSingleMmap + FeatNoDrop)

\* Flags & FeatSingleMmap, computed on the bit.
HasSingleMmap(f) == (f % (2 * FeatSingleMmap)) \div FeatSingleMmap = 1

\* The ring states of the submission queue.
RingStateEmpty == "Empty"
RingStateFilling == "Filling"
RingStateFull == "Full"

\* A Go error value: nil, or an errno with the message errors.Wrap put on it.
Nil == [errno |-> "", msg |-> ""]
Errno(e) == [errno |-> e, msg |-> ""]
Wrap(err, m) == [errno |-> err.errno, msg |-> m]

\* Errors the io_uring_enter call may fail with.
EnterErrnos == {"EINTR", "EBADF"}

VARIABLES
    size,       \* r.sq.Size
    head,       \* *r.sq.Head, the allocation cursor
    tail,       \* *r.sq.Tail
    state,      \* *r.sq.state
    idx,        \* *r.idx
    sq,         \* r.sq: "ptr" or "nil"
    sqMapped,   \* the submission region is still mapped
    cq,         \* r.cq: "ptr" or "nil"
    cqMapped,   \* the completion region is still mapped (its own mapping)
    fdOpen,     \* r.fd is an open descriptor
    flags,      \* r.p.Flags
    sqMu,       \* r.sqMu: 0, or the thread holding it
    cqMu,       \* r.cqMu: 0, or the thread holding it
    pc,         \* where each thread is
    v,          \* Sqe's local v of each thread
    ret,        \* the error the thread's last Enter or Close returned
    panicked,   \* "" or the operation whose nil / unmapped dereference crashed the process
    \* ---- history of the run
    allocs,     \* the indices Sqe returned, in order: [t, v]
    sqeCalls,   \* Sqe invocations so far
    disturbed,  \* the tail moved or an Enter succeeded after the first Sqe call
    unflushed,  \* the thread wrote a slot and no barrier of its own followed yet
    barrier,    \* "none", or how the thread's current Enter applied the barrier: "flushed" a pending write, or "clean"
    kcalls,     \* kernel enter calls made by the thread's current Enter
    kerr,       \* what the kernel enter call of the thread's current Enter returned
    stale,      \* the kernel was entered while the caller's slot write was unflushed
    entered,    \* ring state when the thread's current Enter made its kernel call
    idxRets,    \* the values Idx returned, in the order of the atomic increments: [t, id]
    sysLog,     \* the teardown syscalls of the thread's current Close, in order
    sqUnmaps,   \* successful munmaps of the submission region
    cqUnmaps,   \* successful munmaps of the completion region
    reUnmap,    \* a munmap was issued for a region already unmapped
    fdCloses,   \* close syscalls issued on r.fd, counted up to 2
    sqesMapped, \* the submission-entries array is still mapped
    newPc,      \* where the constructor New is: "setup", "mmap" or "done"
    newErr,     \* the error New returned
    newRing,    \* what New returned as its *Ring: "ring" or "nil"; "" until it returns
    seen,       \* the value the last SubmitHead / SubmitTail returned, -1 before any
    badRead     \* an introspection read went through r.sq after it was unmapped or released

ringVars == <<head, tail, state, idx, sq, sqMapped, cq, cqMapped, fdOpen, flags, sqMu, cqMu>>
threadVars == <<pc, v, ret, panicked>>
allocHist == <<allocs, sqeCalls, disturbed>>
enterHist == <<unflushed, barrier, kcalls, kerr, stale, entered>>
closeHist == <<sysLog, sqUnmaps, cqUnmaps, reUnmap>>
ctorVars == <<size, sqesMapped, newPc, newErr, newRing>>
readHist == <<seen, badRead>>
restVars == <<ctorVars, readHist, fdCloses>>
vars == <<ringVars, threadVars, allocHist, enterHist, idxRets, closeHist, restVars>>

\* New: the ring after construction.  The kernel reports the feature word.
Init ==
    /\ size \in 1..RingSize
    /\ head = 0
    /\ tail = 0
    /\ state = RingStateEmpty
    /\ idx = 0
    /\ sq = "ptr"
    /\ sqMapped = TRUE
    /\ cq = "ptr"
    /\ cqMapped = TRUE
    /\ fdOpen = TRUE
    /\ flags \in FeatureWords
    /\ sqMu = 0
    /\ cqMu = 0
    /\ pc = [t \in Threads |-> "idle"]
    /\ v = [t \in Threads |-> 0]
    /\ ret = [t \in Threads |-> Nil]
    /\ panicked = ""
    /\ allocs = <<>>
    /\ sqeCalls = 0
    /\ disturbed = FALSE
    /\ unflushed = [t \in Threads |-> FALSE]
    /\ barrier = [t \in Threads |-> "none"]
    /\ kcalls = [t \in Threads |-> 0]
    /\ kerr = [t \in Threads |-> Nil]
    /\ stale = FALSE
    /\ entered = [t \in Threads |-> RingStateEmpty]
    /\ idxRets = <<>>
    /\ sysLog = [t \in Threads |-> <<>>]
    /\ sqUnmaps = 0
    /\ cqUnmaps = 0
    /\ reUnmap = FALSE
    /\ fdCloses = 0
    /\ sqesMapped = TRUE
    /\ newPc = "done"
    /\ newErr = Nil
    /\ newRing = "ring"
    /\ seen = -1
    /\ badRead = FALSE

\* Before New(size) is called: no descriptor, no mapping, no ring to call into.
InitPre ==
    /\ size \in 1..RingSize
    /\ head = 0
    /\ tail = 0
    /\ state = RingStateEmpty
    /\ idx = 0
    /\ sq = "nil"
    /\ sqMapped = FALSE
    /\ cq = "nil"
    /\ cqMapped = FALSE
    /\ fdOpen = FALSE
    /\ flags = 0
    /\ sqMu = 0
    /\ cqMu = 0
    /\ pc = [t \in Threads |-> "unborn"]
    /\ v = [t \in Threads |-> 0]
    /\ ret = [t \in Threads |-> Nil]
    /\ panicked = ""
    /\ allocs = <<>>
    /\ sqeCalls = 0
    /\ disturbed = FALSE
    /\ unflushed = [t \in Threads |-> FALSE]
    /\ barrier = [t \in Threads |-> "none"]
    /\ kcalls = [t \in Threads |-> 0]
    /\ kerr = [t \in Threads |-> Nil]
    /\ stale = FALSE
    /\ entered = [t \in Threads |-> RingStateEmpty]
    /\ idxRets = <<>>
    /\ sysLog = [t \in Threads |-> <<>>]
    /\ sqUnmaps = 0
    /\ cqUnmaps = 0
    /\ reUnmap = FALSE
    /\ fdCloses = 0
    /\ sqesMapped = FALSE
    /\ newPc = "setup"
    /\ newErr = Nil
    /\ newRing = ""
    /\ seen = -1
    /\ badRead = FALSE

\* A dereference of r.sq: a nil pointer or an unmapped region crashes the process.
SqLive == sq = "ptr" /\ sqMapped

Panic(op) ==
    /\ panicked' = op
    /\ UNCHANGED <<ringVars, pc, v, ret, allocHist, enterHist, idxRets, closeHist>>

Running == panicked = ""

\* ------------------------------------------------------------------ New
\* Errors io_uring_setup and the mmap calls may fail with.
SetupErrnos == {"ENOMEM", "EINVAL"}
MmapErrnos == {"ENOMEM"}

\* fd, err := Setup(size, &p); if err != nil { return nil, err }.  On success
\* the kernel hands out the ring fd and reports the feature word in p.
NewSetup ==
    /\ newPc = "setup"
    /\ \/ /\ fdOpen' = TRUE
          /\ flags' \in FeatureWords
          /\ newPc' = "mmap"
          /\ UNCHANGED <<newErr, newRing>>
       \/ /\ \E e \in SetupErrnos : newErr' = Errno(e)
          /\ newRing' = "nil"
          /\ newPc' = "done"
          /\ UNCHANGED <<fdOpen, flags>>
    /\ UNCHANGED <<head, tail, state, idx, sq, sqMapped, cq, cqMapped, sqMu, cqMu>>
    /\ UNCHANGED <<size, sqesMapped, readHist, fdCloses>>
    /\ UNCHANGED <<threadVars, allocHist, enterHist, idxRets, closeHist>>

\* MmapRing(fd, &p, &sq, &cq): maps the submission ring, the submission-entries
\* array and the completion ring; a failure unwinds the mappings already made.
MmapRing(ok) ==
    /\ sqMapped' = ok
    /\ sqesMapped' = ok
    /\ cqMapped' = ok

\* if err := MmapRing(...); err != nil { return nil, err }; otherwise the
\* identifier counter and the ring state are set and the *Ring is returned,
\* from when on callers use it.
NewMmap ==
    /\ newPc = "mmap"
    /\ \/ /\ MmapRing(TRUE)
          /\ idx' = 0
          /\ state' = RingStateEmpty
          /\ sq' = "ptr"
          /\ cq' = "ptr"
          /\ newRing' = "ring"
          /\ newErr' = Nil
          /\ pc' = [t \in Threads |-> "idle"]
       \/ /\ MmapRing(FALSE)
          /\ \E e \in MmapErrnos : newErr' = Errno(e)
          /\ newRing' = "nil"
          /\ UNCHANGED <<idx, state, sq, cq, pc>>
    /\ newPc' = "done"
    /\ UNCHANGED <<head, tail, fdOpen, flags, sqMu, cqMu>>
    /\ UNCHANGED <<size, readHist, fdCloses>>
    /\ UNCHANGED <<v, ret, panicked, allocHist, enterHist, idxRets, closeHist>>

\* ------------------------------------------------------------- Ring.Sqe
\* A caller enters Sqe and stands at the getIdx label.
SqeCall(t) ==
    /\ Running
    /\ UNCHANGED restVars
    /\ pc[t] = "idle"
    /\ sqeCalls < MaxSqeCalls
    /\ pc' = [pc EXCEPT ![t] = "sqe_add"]
    /\ sqeCalls' = sqeCalls + 1
    /\ UNCHANGED <<ringVars, v, ret, panicked, allocs, disturbed, enterHist, idxRets, closeHist>>

\* v := atomic.AddUint32(r.sq.Head, 1); then the test v == r.sq.Size.
SqeAdd(t) ==
    /\ Running
    /\ UNCHANGED restVars
    /\ pc[t] = "sqe_add"
    /\ IF ~SqLive
       THEN Panic("Sqe")
       ELSE /\ head' = head + 1
            /\ v' = [v EXCEPT ![t] = head + 1]
            /\ pc' = [pc EXCEPT ![t] = IF head + 1 = size THEN "sqe_cas" ELSE "sqe_tail"]
            /\ UNCHANGED <<tail, state, idx, sq, sqMapped, cq, cqMapped, fdOpen, flags, sqMu, cqMu>>
            /\ UNCHANGED <<ret, panicked, allocHist, enterHist, idxRets, closeHist>>

\* atomic.CompareAndSwapUint32(r.sq.Head, v, 0); on failure Gosched and goto getIdx.
SqeCas(t) ==
    /\ Running
    /\ UNCHANGED restVars
    /\ pc[t] = "sqe_cas"
    /\ IF ~SqLive
       THEN Panic("Sqe")
       ELSE /\ IF head = v[t]
               THEN head' = 0 /\ pc' = [pc EXCEPT ![t] = "sqe_tail"]
               ELSE head' = head /\ pc' = [pc EXCEPT ![t] = "sqe_add"]
            /\ UNCHANGED <<tail, state, idx, sq, sqMapped, cq, cqMapped, fdOpen, flags, sqMu, cqMu>>
            /\ UNCHANGED <<v, ret, panicked, allocHist, enterHist, idxRets, closeHist>>

\* Sqe that marks the ring Filling when it hands out an index.
SqeTail_MarksFilling(t) ==
    /\ Running
    /\ UNCHANGED restVars
    /\ pc[t] = "sqe_tail"
    /\ IF tail # v[t]
       THEN /\ pc' = [pc EXCEPT ![t] = "idle"]
            /\ allocs' = Append(allocs, [t |-> t, v |-> v[t]])
            /\ state' = RingStateFilling
       ELSE /\ pc' = [pc EXCEPT ![t] = "sqe_add"]
            /\ allocs' = allocs
            /\ state' = state
    /\ UNCHANGED <<head, tail, idx, sq, sqMapped, cq, cqMapped, fdOpen, flags, sqMu, cqMu>>
    /\ UNCHANGED <<v, ret, panicked, sqeCalls, disturbed, enterHist, idxRets, closeHist>>

\* Sqe that marks the ring Full when it finds tail == v.
SqeTail_MarksFull(t) ==
    /\ Running
    /\ UNCHANGED restVars
    /\ pc[t] = "sqe_tail"
    /\ IF tail # v[t]
       THEN /\ pc' = [pc EXCEPT ![t] = "idle"]
            /\ allocs' = Append(allocs, [t |-> t, v |-> v[t]])
            /\ state' = state
       ELSE /\ pc' = [pc EXCEPT ![t] = "sqe_add"]
            /\ allocs' = allocs
            /\ state' = RingStateFull
    /\ UNCHANGED <<head, tail, idx, sq, sqMapped, cq, cqMapped, fdOpen, flags, sqMu, cqMu>>
    /\ UNCHANGED <<v, ret, panicked, sqeCalls, disturbed, enterHist, idxRets, closeHist>>

\* tail := atomic.LoadUint32(r.sq.Tail); return int(v) when tail != v, else
\* Gosched and goto getIdx.
SqeTail(t) ==
    /\ Running
    /\ UNCHANGED restVars
    /\ pc[t] = "sqe_tail"
    /\ IF ~SqLive
       THEN Panic("Sqe")
       ELSE /\ IF tail # v[t]
               THEN /\ pc' = [pc EXCEPT ![t] = "idle"]
                    /\ allocs' = Append(allocs, [t |-> t, v |-> v[t]])
               ELSE /\ pc' = [pc EXCEPT ![t] = "sqe_add"]
                    /\ allocs' = allocs
            /\ UNCHANGED <<ringVars, v, ret, panicked, sqeCalls, disturbed, enterHist, idxRets, closeHist>>

\* The submission tail is advanced in the shared region (the publication of an
\* entry, outside Ring's own methods).
PublishTail ==
    /\ Running
    /\ UNCHANGED restVars
    /\ tail < MaxTail
    /\ tail' = tail + 1
    /\ disturbed' = (disturbed \/ sqeCalls > 0)
    /\ UNCHANGED <<head, state, idx, sq, sqMapped, cq, cqMapped, fdOpen, flags, sqMu, cqMu>>
    /\ UNCHANGED <<threadVars, allocs, sqeCalls, enterHist, idxRets, closeHist>>

\* ------------------------------------------------------------ Ring.Enter
\* The record of a thread's last Enter is dropped when the thread moves on.
ForgetEnter(t) ==
    /\ barrier' = [barrier EXCEPT ![t] = "none"]
    /\ kcalls' = [kcalls EXCEPT ![t] = 0]
    /\ kerr' = [kerr EXCEPT ![t] = Nil]
    /\ entered' = [entered EXCEPT ![t] = RingStateEmpty]
    /\ ret' = [ret EXCEPT ![t] = Nil]

\* A caller writes a submission entry into the slot it holds.
WriteSlot(t) ==
    /\ Running
    /\ UNCHANGED restVars
    /\ pc[t] = "idle"
    /\ ~unflushed[t]
    /\ unflushed' = [unflushed EXCEPT ![t] = TRUE]
    /\ ForgetEnter(t)
    /\ UNCHANGED <<ringVars, pc, v, panicked, allocHist, stale, idxRets, closeHist>>

\* The descriptor's ring state leaves Empty (entries allocated or written since
\* the last flush, or saturation signalled).
MarkState(s) ==
    /\ Running
    /\ UNCHANGED restVars
    /\ s # state
    /\ state' = s
    /\ UNCHANGED <<head, tail, idx, sq, sqMapped, cq, cqMapped, fdOpen, flags, sqMu, cqMu>>
    /\ UNCHANGED <<threadVars, allocHist, enterHist, idxRets, closeHist>>

\* A caller enters Ring.Enter.
EnterCall(t) ==
    /\ Running
    /\ UNCHANGED restVars
    /\ pc[t] = "idle"
    /\ pc' = [pc EXCEPT ![t] = "enter_barrier"]
    /\ ForgetEnter(t)
    /\ UNCHANGED <<ringVars, v, panicked, allocHist, unflushed, stale, idxRets, closeHist>>

\* sq.submitBarrier(): the fence that makes the caller's earlier slot writes
\* visible; it leaves the ring state alone.
SubmitBarrier(t) ==
    /\ barrier' = [barrier EXCEPT ![t] = IF unflushed[t] THEN "flushed" ELSE "clean"]
    /\ unflushed' = [unflushed EXCEPT ![t] = FALSE]

\* Enter that goes to the kernel call without the barrier.
EnterBarrier_Skipped(t) ==
    /\ Running
    /\ UNCHANGED restVars
    /\ pc[t] = "enter_barrier"
    /\ pc' = [pc EXCEPT ![t] = "enter_kernel"]
    /\ UNCHANGED <<ringVars, v, ret, panicked, allocHist, enterHist, idxRets, closeHist>>

\* r.sq.submitBarrier(), the first statement of Enter.
EnterBarrier(t) ==
    /\ Running
    /\ UNCHANGED restVars
    /\ pc[t] = "enter_barrier"
    /\ IF sq # "ptr"
       THEN Panic("Enter")
       ELSE /\ SubmitBarrier(t)
            /\ pc' = [pc EXCEPT ![t] = "enter_kernel"]
            /\ UNCHANGED <<ringVars, v, ret, panicked, allocHist, kcalls, kerr, stale, entered, idxRets, closeHist>>

\* Enter that marks the ring empty before it looks at the kernel's error.
EnterKernel_EmptyFirst(t) ==
    /\ Running
    /\ UNCHANGED restVars
    /\ pc[t] = "enter_kernel"
    /\ \E e \in {Nil} \cup {Errno(x) : x \in EnterErrnos} :
        /\ kerr' = [kerr EXCEPT ![t] = e]
        /\ IF e # Nil
           THEN pc' = [pc EXCEPT ![t] = "idle"] /\ ret' = [ret EXCEPT ![t] = e]
           ELSE pc' = [pc EXCEPT ![t] = "enter_empty"] /\ ret' = ret
    /\ kcalls' = [kcalls EXCEPT ![t] = @ + 1]
    /\ stale' = (stale \/ unflushed[t])
    /\ entered' = [entered EXCEPT ![t] = state]
    /\ state' = RingStateEmpty
    /\ UNCHANGED <<head, tail, idx, sq, sqMapped, cq, cqMapped, fdOpen, flags, sqMu, cqMu>>
    /\ UNCHANGED <<v, panicked, allocHist, unflushed, barrier, idxRets, closeHist>>

\* err := Enter(fd, ...): the kernel call; a failure is returned as it is.
EnterKernel(t) ==
    /\ Running
    /\ UNCHANGED restVars
    /\ pc[t] = "enter_kernel"
    /\ \E e \in {Nil} \cup {Errno(x) : x \in EnterErrnos} :
        /\ kerr' = [kerr EXCEPT ![t] = e]
        /\ IF e # Nil
           THEN pc' = [pc EXCEPT ![t] = "idle"] /\ ret' = [ret EXCEPT ![t] = e]
           ELSE pc' = [pc EXCEPT ![t] = "enter_empty"] /\ ret' = ret
    /\ kcalls' = [kcalls EXCEPT ![t] = @ + 1]
    /\ stale' = (stale \/ unflushed[t])
    /\ entered' = [entered EXCEPT ![t] = state]
    /\ UNCHANGED <<ringVars, v, panicked, allocHist, unflushed, barrier, idxRets, closeHist>>

\* sq.empty(): the ring state becomes Empty.
Empty ==
    state' = RingStateEmpty

\* Enter that returns nil after a successful kernel call without r.sq.empty().
EnterEmpty_NoReset(t) ==
    /\ Running
    /\ UNCHANGED restVars
    /\ pc[t] = "enter_empty"
    /\ pc' = [pc EXCEPT ![t] = "idle"]
    /\ ret' = [ret EXCEPT ![t] = Nil]
    /\ UNCHANGED <<ringVars, v, panicked, allocHist, enterHist, idxRets, closeHist>>

\* r.sq.empty(); return nil.
EnterEmpty(t) ==
    /\ Running
    /\ UNCHANGED restVars
    /\ pc[t] = "enter_empty"
    /\ IF sq # "ptr"
       THEN Panic("Enter")
       ELSE /\ Empty
            /\ pc' = [pc EXCEPT ![t] = "idle"]
            /\ ret' = [ret EXCEPT ![t] = Nil]
            /\ disturbed' = (disturbed \/ sqeCalls > 0)
            /\ UNCHANGED <<head, tail, idx, sq, sqMapped, cq, cqMapped, fdOpen, flags, sqMu, cqMu>>
            /\ UNCHANGED <<v, panicked, allocs, sqeCalls, enterHist, idxRets, closeHist>>

\* -------------------------------------------------------------- Ring.Idx
\* Idx that returns *r.idx + 1 and does not store it.
Idx_NoStore(t) ==
    /\ Running
    /\ UNCHANGED restVars
    /\ pc[t] = "idle"
    /\ Len(idxRets) < MaxIdxCalls
    /\ idx' = idx
    /\ idxRets' = Append(idxRets, [t |-> t, id |-> idx + 1])
    /\ UNCHANGED <<head, tail, state, sq, sqMapped, cq, cqMapped, fdOpen, flags, sqMu, cqMu>>
    /\ UNCHANGED <<threadVars, allocHist, enterHist, closeHist>>

\* return atomic.AddUint64(r.idx, 1): one atomic step.
Idx(t) ==
    /\ Running
    /\ UNCHANGED restVars
    /\ pc[t] = "idle"
    /\ idx < MaxIdxCalls
    /\ idx' = idx + 1
    /\ idxRets' = Append(idxRets, [t |-> t, id |-> idx + 1])
    /\ UNCHANGED <<head, tail, state, sq, sqMapped, cq, cqMapped, fdOpen, flags, sqMu, cqMu>>
    /\ UNCHANGED <<threadVars, allocHist, enterHist, closeHist>>

\* ------------------------------------------------------------ Ring.Close
\* The errno a failing munmap reports.
MunmapErrno == "EINVAL"

\* A caller enters Ring.Close, which starts with r.closeSq().
CloseCall(t) ==
    /\ Running
    /\ UNCHANGED restVars
    /\ pc[t] = "idle"
    /\ pc' = [pc EXCEPT ![t] = "closesq_lock"]
    /\ sysLog' = [sysLog EXCEPT ![t] = <<>>]
    /\ ForgetEnter(t)
    /\ UNCHANGED <<ringVars, v, panicked, allocHist, unflushed, stale, idxRets, sqUnmaps, cqUnmaps, reUnmap>>

\* closeSq: r.sqMu.Lock(); if r.sq == nil { return nil } (the deferred Unlock
\* runs on the return).
CloseSqLock(t) ==
    /\ Running
    /\ UNCHANGED restVars
    /\ pc[t] = "closesq_lock"
    /\ sqMu = 0
    /\ IF sq = "nil"
       THEN sqMu' = 0 /\ pc' = [pc EXCEPT ![t] = "close_flags"]
       ELSE sqMu' = t /\ pc' = [pc EXCEPT ![t] = "closesq_munmap"]
    /\ UNCHANGED <<head, tail, state, idx, sq, sqMapped, cq, cqMapped, fdOpen, flags, cqMu>>
    /\ UNCHANGED <<v, ret, panicked, allocHist, enterHist, idxRets, closeHist>>

\* closeSq: the munmap syscall on r.sq.ptr; a failure is wrapped and returned
\* from closeSq and from Close, r.sq left as it is.
CloseSqMunmap(t) ==
    /\ Running
    /\ UNCHANGED restVars
    /\ pc[t] = "closesq_munmap"
    /\ IF sq # "ptr"
       THEN Panic("Close")
       ELSE /\ sysLog' = [sysLog EXCEPT ![t] = Append(@, "munmap_sq")]
            /\ reUnmap' = (reUnmap \/ ~sqMapped)
            /\ \E ok \in BOOLEAN :
                IF ok
                THEN /\ sqMapped' = FALSE
                     /\ sqUnmaps' = sqUnmaps + 1
                     /\ pc' = [pc EXCEPT ![t] = "closesq_nil"]
                     /\ UNCHANGED <<sqMu, ret>>
                ELSE /\ sqMu' = 0
                     /\ ret' = [ret EXCEPT ![t] = Wrap(Errno(MunmapErrno), "failed to munmap sq ring")]
                     /\ pc' = [pc EXCEPT ![t] = "idle"]
                     /\ UNCHANGED <<sqMapped, sqUnmaps>>
            /\ UNCHANGED <<head, tail, state, idx, sq, cq, cqMapped, fdOpen, flags, cqMu>>
            /\ UNCHANGED <<v, panicked, allocHist, enterHist, idxRets, cqUnmaps>>

\* closeSq that returns nil after the munmap without r.sq = nil.
CloseSqNil_Forgotten(t) ==
    /\ Running
    /\ UNCHANGED restVars
    /\ pc[t] = "closesq_nil"
    /\ sqMu' = 0
    /\ pc' = [pc EXCEPT ![t] = "close_flags"]
    /\ UNCHANGED <<head, tail, state, idx, sq, sqMapped, cq, cqMapped, fdOpen, flags, cqMu>>
    /\ UNCHANGED <<v, ret, panicked, allocHist, enterHist, idxRets, closeHist>>

\* closeSq: r.sq = nil; return nil (the deferred Unlock runs).
CloseSqNil(t) ==
    /\ Running
    /\ UNCHANGED restVars
    /\ pc[t] = "closesq_nil"
    /\ sq' = "nil"
    /\ sqMu' = 0
    /\ pc' = [pc EXCEPT ![t] = "close_flags"]
    /\ UNCHANGED <<head, tail, state, idx, sqMapped, cq, cqMapped, fdOpen, flags, cqMu>>
    /\ UNCHANGED <<v, ret, panicked, allocHist, enterHist, idxRets, closeHist>>

\* Close that calls closeCq whatever the feature word says.
CloseFlags_Ignored(t) ==
    /\ Running
    /\ UNCHANGED restVars
    /\ pc[t] = "close_flags"
    /\ pc' = [pc EXCEPT ![t] = "closecq_lock"]
    /\ UNCHANGED <<ringVars, v, ret, panicked, allocHist, enterHist, idxRets, closeHist>>

\* Close: if r.p.Flags&FeatSingleMmap == 0 { r.closeCq() }, else on to the fd.
CloseFlags(t) ==
    /\ Running
    /\ UNCHANGED restVars
    /\ pc[t] = "close_flags"
    /\ pc' = [pc EXCEPT ![t] = IF ~HasSingleMmap(flags) THEN "closecq_lock" ELSE "close_fd"]
    /\ UNCHANGED <<ringVars, v, ret, panicked, allocHist, enterHist, idxRets, closeHist>>

\* closeCq: r.cqMu.Lock(); if r.cq == nil { return nil }.
CloseCqLock(t) ==
    /\ Running
    /\ UNCHANGED restVars
    /\ pc[t] = "closecq_lock"
    /\ cqMu = 0
    /\ IF cq = "nil"
       THEN cqMu' = 0 /\ pc' = [pc EXCEPT ![t] = "close_fd"]
       ELSE cqMu' = t /\ pc' = [pc EXCEPT ![t] = "closecq_munmap"]
    /\ UNCHANGED <<head, tail, state, idx, sq, sqMapped, cq, cqMapped, fdOpen, flags, sqMu>>
    /\ UNCHANGED <<v, ret, panicked, allocHist, enterHist, idxRets, closeHist>>

\* closeCq: the munmap syscall on r.cq.ptr; a failure is wrapped and returned.
CloseCqMunmap(t) ==
    /\ Running
    /\ UNCHANGED restVars
    /\ pc[t] = "closecq_munmap"
    /\ IF cq # "ptr"
       THEN Panic("Close")
       ELSE /\ sysLog' = [sysLog EXCEPT ![t] = Append(@, "munmap_cq")]
            /\ reUnmap' = (reUnmap \/ ~cqMapped)
            /\ \E ok \in BOOLEAN :
                IF ok
                THEN /\ cqMapped' = FALSE
                     /\ cqUnmaps' = cqUnmaps + 1
                     /\ pc' = [pc EXCEPT ![t] = "closecq_nil"]
                     /\ UNCHANGED <<cqMu, ret>>
                ELSE /\ cqMu' = 0
                     /\ ret' = [ret EXCEPT ![t] = Wrap(Errno(MunmapErrno), "failed to munmap cq ring")]
                     /\ pc' = [pc EXCEPT ![t] = "idle"]
                     /\ UNCHANGED <<cqMapped, cqUnmaps>>
            /\ UNCHANGED <<head, tail, state, idx, sq, sqMapped, cq, fdOpen, flags, sqMu>>
            /\ UNCHANGED <<v, panicked, allocHist, enterHist, idxRets, sqUnmaps>>

\* closeCq: r.cq = nil; return nil.
CloseCqNil(t) ==
    /\ Running
    /\ UNCHANGED restVars
    /\ pc[t] = "closecq_nil"
    /\ cq' = "nil"
    /\ cqMu' = 0
    /\ pc' = [pc EXCEPT ![t] = "close_fd"]
    /\ UNCHANGED <<head, tail, state, idx, sq, sqMapped, cqMapped, fdOpen, flags, sqMu>>
    /\ UNCHANGED <<v, ret, panicked, allocHist, enterHist, idxRets, closeHist>>

\* Close: return syscall.Close(r.fd).  A descriptor that is not open gives
\* EBADF; an interrupted close of an open one may or may not have released it.
CloseFd(t) ==
    /\ Running
    /\ fdCloses' = IF fdCloses < 2 THEN fdCloses + 1 ELSE fdCloses
    /\ UNCHANGED <<ctorVars, readHist>>
    /\ pc[t] = "close_fd"
    /\ sysLog' = [sysLog EXCEPT ![t] = Append(@, "close")]
    /\ pc' = [pc EXCEPT ![t] = "idle"]
    /\ IF fdOpen
       THEN \/ fdOpen' = FALSE /\ ret' = [ret EXCEPT ![t] = Nil]
            \/ fdOpen' \in BOOLEAN /\ ret' = [ret EXCEPT ![t] = Errno("EINTR")]
       ELSE fdOpen' = FALSE /\ ret' = [ret EXCEPT ![t] = Errno("EBADF")]
    /\ UNCHANGED <<head, tail, state, idx, sq, sqMapped, cq, cqMapped, flags, sqMu, cqMu>>
    /\ UNCHANGED <<v, panicked, allocHist, enterHist, idxRets, sqUnmaps, cqUnmaps, reUnmap>>

\* ------------------------------------------- Ring.SubmitHead / SubmitTail
\* An atomic load through r.sq, with no lock taken.  On a nil r.sq the load
\* panics; on a region already unmapped it faults, or returns whatever a later
\* mapping put at that address.
LoadSq(t, op, val) ==
    /\ Running
    /\ pc[t] = "idle"
    /\ UNCHANGED <<ctorVars, fdCloses>>
    /\ UNCHANGED <<ringVars, pc, v, ret, allocHist, enterHist, idxRets, closeHist>>
    /\ IF sq = "nil"
       THEN panicked' = op /\ badRead' = TRUE /\ seen' = seen
       ELSE IF ~sqMapped
       THEN /\ badRead' = TRUE
            /\ \/ panicked' = op /\ seen' = seen
               \/ panicked' = panicked /\ seen' \in 0..RingSize
       ELSE panicked' = panicked /\ badRead' = badRead /\ seen' = val

\* return int(atomic.LoadUint32(r.sq.Head))
SubmitHead(t) == LoadSq(t, "SubmitHead", head)

\* return int(atomic.LoadUint32(r.sq.Tail))
SubmitTail(t) == LoadSq(t, "SubmitTail", tail)

\* ------------------------------------------------------- specifications
\* A ring whose kernel reported no feature bit.
InitNoFeat == Init /\ flags = 0

\* Callers of Sqe, with the tail advancing in the shared region.
NextAlloc ==
    \/ \E t \in Threads : SqeCall(t)
    \/ \E t \in Threads : SqeAdd(t)
    \/ \E t \in Threads : SqeCas(t)
    \/ \E t \in Threads : SqeTail(t)
    \/ PublishTail

SpecAlloc == InitNoFeat /\ [][NextAlloc]_vars

\* Callers that write entries and enter the kernel.
NextSubmit ==
    \/ \E t \in Threads : WriteSlot(t)
    \/ \E s \in {RingStateFilling, RingStateFull} : MarkState(s)
    \/ \E t \in Threads : EnterCall(t)
    \/ \E t \in Threads : EnterBarrier(t)
    \/ \E t \in Threads : EnterKernel(t)
    \/ \E t \in Threads : EnterEmpty(t)

SpecSubmit == InitNoFeat /\ [][NextSubmit]_vars

\* Callers of Sqe while the tail stays fixed for as long as a call is in
\* flight; the scheduler lets every caller that can take a step take it.
LivePublish ==
    /\ \A t \in Threads : pc[t] = "idle"
    /\ PublishTail

NextLive ==
    \/ \E t \in Threads : SqeCall(t)
    \/ \E t \in Threads : SqeAdd(t)
    \/ \E t \in Threads : SqeCas(t)
    \/ \E t \in Threads : SqeTail(t)
    \/ LivePublish

FairLive ==
    \A t \in Threads :
        WF_vars(SqeAdd(t)) /\ WF_vars(SqeCas(t)) /\ WF_vars(SqeTail(t))

SpecLive == InitNoFeat /\ [][NextLive]_vars /\ FairLive

\* Callers of Sqe beside callers of the introspection reads.
NextIntro ==
    \/ NextAlloc
    \/ \E t \in Threads : SubmitHead(t)
    \/ \E t \in Threads : SubmitTail(t)

SpecIntro == InitNoFeat /\ [][NextIntro]_vars

\* Callers of Idx.
NextIdx ==
    \E t \in Threads : Idx(t)

SpecIdx == Init /\ [][NextIdx]_vars

\* Callers of Close, on a ring with any feature word.
NextClose ==
    \/ \E t \in Threads : CloseCall(t)
    \/ \E t \in Threads : CloseSqLock(t)
    \/ \E t \in Threads : CloseSqMunmap(t)
    \/ \E t \in Threads : CloseSqNil(t)
    \/ \E t \in Threads : CloseFlags(t)
    \/ \E t \in Threads : CloseCqLock(t)
    \/ \E t \in Threads : CloseCqMunmap(t)
    \/ \E t \in Threads : CloseCqNil(t)
    \/ \E t \in Threads : CloseFd(t)

SpecClose == Init /\ [][NextClose]_vars

\* Callers of Close beside callers of the introspection reads.
NextTeardown ==
    \/ NextClose
    \/ \E t \in Threads : SubmitHead(t)
    \/ \E t \in Threads : SubmitTail(t)

SpecTeardown == Init /\ [][NextTeardown]_vars

\* New, then callers of Close on the ring it returned.
NextLife ==
    \/ NewSetup
    \/ NewMmap
    \/ NextClose

SpecLife == InitPre /\ [][NextLife]_vars

\* ================================================================ claims
\* The threads that have called Sqe: those inside it and those it returned to.
SqeCallers ==
    {t \in Threads : pc[t] \in {"sqe_add", "sqe_cas", "sqe_tail"}}
        \cup {allocs[i].t : i \in 1..Len(allocs)}

\* C1 (as claimed): while at most Size Sqe calls have been made, the tail has
\* not moved since the first of them and no Enter has completed, no two calls
\* have returned the same index.
C1_SlotUniqueness ==
    (~disturbed /\ sqeCalls <= size) =>
        \A i, j \in 1..Len(allocs) : i # j => allocs[i].v # allocs[j].v

\* C2 (as claimed): every index Sqe returns is an index of the entries array,
\* 0 <= index < Size.
C2_IndexInRange ==
    \A i \in 1..Len(allocs) : 0 <= allocs[i].v /\ allocs[i].v < size

\* C3 (as claimed): on a fresh ring (head = 0, tail = 0, never moved) the first
\* Size calls of a single thread return 0, 1, ..., Size-1 in that order.
C3_SequentialOrder ==
    (tail = 0 /\ ~disturbed /\ Cardinality(SqeCallers) <= 1) =>
        \A i \in 1..Len(allocs) : i <= size => allocs[i].v = i - 1

\* C4 (as claimed): while the tail has not moved and no Enter has completed, no
\* more than Size Sqe calls return: a further call keeps spinning.
C4_RingFullBackoff ==
    ~disturbed => Len(allocs) <= size

\* C5: the identifiers Idx returns, in the order of the atomic increments, are
\* 1, 2, 3, ...: strictly increasing, none twice, and the counter has advanced
\* by exactly one per call.
C5_IdxMonotonic ==
    /\ idx = Len(idxRets)
    /\ \A i \in 1..Len(idxRets) : idxRets[i].id = i
    /\ \A i, j \in 1..Len(idxRets) : i < j => idxRets[i].id < idxRets[j].id

\* Two different threads have taken identifiers.
C5_Witness ==
    /\ Len(idxRets) >= 3
    /\ \E i, j \in 1..Len(idxRets) : idxRets[i].t # idxRets[j].t

\* C6: an Enter that has made its kernel call applied the submit barrier before
\* it, and no kernel call was ever made while the calling thread had a slot
\* write that its barrier had not yet made visible.
C6_BarrierBeforeKernel ==
    /\ \A t \in Threads : kcalls[t] > 0 => barrier[t] # "none"
    /\ \A t \in Threads : pc[t] = "enter_kernel" => barrier[t] # "none" /\ ~unflushed[t]
    /\ ~stale

\* A thread wrote its slot, called Enter, and the kernel call was made after the
\* barrier flushed the write.
C6_Witness ==
    \E t \in Threads : kcalls[t] = 1 /\ barrier[t] = "flushed" /\ ~unflushed[t]

\* C7: the step by which an Enter whose kernel call succeeded returns leaves the
\* ring state Empty and returns nil, whatever the state was before; and an Enter
\* whose kernel call succeeded goes on to that step.
C7_EnterSuccessEmpties ==
    [][\A t \in Threads :
        /\ (pc[t] \in {"enter_kernel", "enter_empty"} /\ pc'[t] = "idle" /\ kerr'[t] = Nil)
              => (state' = RingStateEmpty /\ ret'[t] = Nil)
        /\ (pc[t] = "enter_kernel" /\ kcalls'[t] = kcalls[t] + 1 /\ kerr'[t] = Nil)
              => pc'[t] = "enter_empty"]_vars

\* An Enter entered the kernel with the ring Filling, succeeded and returned nil
\* with the ring Empty.
C7_Witness ==
    \E t \in Threads :
        /\ pc[t] = "idle" /\ kcalls[t] = 1 /\ kerr[t] = Nil /\ ret[t] = Nil
        /\ entered[t] = RingStateFilling
        /\ state = RingStateEmpty

\* C8: when the kernel enter call fails, that same step returns from Enter with
\* exactly the kernel's error, leaves the ring state as it was, and it was the
\* only kernel call of the invocation; the barrier step does not touch the ring
\* state either.
C8_EnterFailure ==
    [][\A t \in Threads :
        /\ (pc[t] = "enter_kernel" /\ kerr'[t] # Nil)
              => /\ pc'[t] = "idle"
                 /\ ret'[t] = kerr'[t]
                 /\ state' = state
                 /\ kcalls'[t] = 1
        /\ (pc[t] = "enter_barrier" /\ pc'[t] = "enter_kernel") => state' = state]_vars

\* An Enter made on a Filling ring failed with EINTR and returned it, the ring
\* still Filling.
C8_Witness ==
    \E t \in Threads :
        /\ pc[t] = "idle" /\ kcalls[t] = 1
        /\ kerr[t] = Errno("EINTR") /\ ret[t] = Errno("EINTR")
        /\ entered[t] = RingStateFilling
        /\ state = RingStateFilling

\* The teardown syscalls of one Close come in the order munmap_sq, munmap_cq,
\* close, each at most once.
InOrder(log) ==
    \A i, j \in 1..Len(log) :
        i < j => <<log[i], log[j]>> \in
            {<<"munmap_sq", "munmap_cq">>, <<"munmap_sq", "close">>, <<"munmap_cq", "close">>}

InLog(log, x) == \E i \in 1..Len(log) : log[i] = x

\* C9: within a Close the syscalls come in the order munmap_sq, munmap_cq,
\* close; the completion region is reached and unmapped only after the
\* submission region is gone and only without the single-mmap feature; the fd is
\* closed only once the submission region is gone and the completion region is
\* gone too (no single-mmap) or was never unmapped (single-mmap).
C9_CloseOrdering ==
    \A t \in Threads :
        /\ InOrder(sysLog[t])
        /\ (pc[t] \in {"closecq_lock", "closecq_munmap", "closecq_nil"} \/ InLog(sysLog[t], "munmap_cq"))
              => (~HasSingleMmap(flags) /\ sq = "nil" /\ ~sqMapped)
        /\ (pc[t] = "close_fd" \/ InLog(sysLog[t], "close"))
              => /\ sq = "nil" /\ sqUnmaps = 1
                 /\ HasSingleMmap(flags) => (cq = "ptr" /\ cqMapped /\ cqUnmaps = 0)
                 /\ ~HasSingleMmap(flags) => (cq = "nil" /\ ~cqMapped /\ cqUnmaps = 1)

\* A Close without single-mmap made all three syscalls, in order, and returned nil.
C9_Witness ==
    \E t \in Threads :
        /\ pc[t] = "idle" /\ ret[t] = Nil
        /\ sysLog[t] = <<"munmap_sq", "munmap_cq", "close">>
        /\ ~fdOpen

\* C10: each region is unmapped at most once, no munmap is ever issued for a
\* region already unmapped, and Close never crashes on a released descriptor.
C10_DoubleCloseBenign ==
    /\ sqUnmaps <= 1
    /\ cqUnmaps <= 1
    /\ ~reUnmap
    /\ panicked # "Close"

\* A second Close ran to its end on a ring an earlier Close had fully torn
\* down: it issued no munmap, only the close of the fd.
C10_Witness ==
    \E t \in Threads :
        /\ pc[t] = "idle" /\ sysLog[t] = <<"close">> /\ ret[t] = Errno("EBADF")
        /\ sq = "nil" /\ sqUnmaps = 1
        /\ ~HasSingleMmap(flags) /\ cq = "nil" /\ cqUnmaps = 1

\* C11 (as claimed): no SubmitHead / SubmitTail read goes through the submission
\* descriptor after Close has unmapped or released it.
C11_ReadsExcluded ==
    ~badRead

\* The errors closeSq and closeCq return when their munmap fails.
SqUnmapError == Wrap(Errno(MunmapErrno), "failed to munmap sq ring")
CqUnmapError == Wrap(Errno(MunmapErrno), "failed to munmap cq ring")

\* C12: once a Close has returned the error of a failed munmap, the reference
\* to that descriptor is released (nil), so that a retried Close does not issue
\* the munmap for that region again.
C12_ReleasedOnError ==
    \A t \in Threads :
        /\ (pc[t] = "idle" /\ ret[t] = SqUnmapError) => sq = "nil"
        /\ (pc[t] = "idle" /\ ret[t] = CqUnmapError) => cq = "nil"

\* C13: a Close whose submission-region unmap failed has still attempted the
\* completion-region unmap (when not single-mmap) before it returned that
\* first error.
C13_ContinuesAfterFailure ==
    \A t \in Threads :
        (pc[t] = "idle" /\ ret[t] = SqUnmapError /\ ~HasSingleMmap(flags))
            => InLog(sysLog[t], "munmap_cq")

\* The syscalls of a Close that ran to its end, by the feature word.
FullClose(f) ==
    IF HasSingleMmap(f) THEN <<"munmap_sq", "close">>
                        ELSE <<"munmap_sq", "munmap_cq", "close">>

\* C14: after New succeeded, a first Close that issued all its syscalls and
\* returned no error leaves none of the mappings New established still mapped
\* (submission ring, submission-entries array, completion ring unless
\* single-mmap) and the fd closed.
C14_RoundTrip ==
    \A t \in Threads :
        (/\ newPc = "done" /\ newRing = "ring" /\ newErr = Nil
         /\ pc[t] = "idle" /\ ret[t] = Nil /\ sysLog[t] = FullClose(flags)
         /\ fdCloses = 1)
            => /\ ~sqMapped
               /\ ~sqesMapped
               /\ HasSingleMmap(flags) \/ ~cqMapped
               /\ ~fdOpen

\* C15: in every reachable state, under any interleaving of Sqe callers, the
\* head cursor is at most Size: an increment that reaches Size is wrapped to 0
\* before any allocation goes past the boundary.
C15_HeadBound == head <= size

InSqe(t) == pc[t] \in {"sqe_add", "sqe_cas", "sqe_tail"}

\* C17: with the tail fixed while calls are in flight and weak fairness on
\* every caller's steps, every Sqe call eventually returns.
C17_SqeTerminates == \A t \in Threads : InSqe(t) ~> (pc[t] = "idle")

\* C18: every step of a Sqe call, the retries on tail == v and on a failed CAS
\* included, writes only the head cursor (and the caller's own locals): the
\* tail, the identifier counter, the ring state, both descriptors and their
\* mappings, the fd and the feature word stay as they were and no kernel enter
\* call is made; a SubmitHead or SubmitTail that returns a new value changes
\* nothing of the ring.
C18_AllocatorFrame ==
    [][/\ (\E t \in Threads : pc'[t] # pc[t])
            => /\ UNCHANGED <<tail, idx, state, sq, sqMapped, cq, cqMapped>>
               /\ UNCHANGED <<fdOpen, flags, sqMu, cqMu, size, sqesMapped>>
               /\ UNCHANGED <<kcalls, fdCloses, sqUnmaps, cqUnmaps>>
       /\ seen' # seen
            => /\ UNCHANGED <<ringVars, size, sqesMapped, fdCloses>>
               /\ UNCHANGED <<pc, v, ret, kcalls, allocs>>]_vars

\* A lone Sqe call found tail == v and went back to its increment, and a
\* read then returned the advanced head.
C18_Witness ==
    \E t \in Threads :
        /\ sqeCalls = 1 /\ allocs = <<>>
        /\ pc[t] = "sqe_add" /\ v[t] > 0 /\ v[t] = tail
        /\ seen = head /\ head > 0

\* C19: across any sequence of Close calls on one ring the fd is passed to the
\* close syscall at most once.
C19_FdClosedOnce == fdCloses <= 1

\* C20: New returns either a ring and no error, or no ring and an error; and
\* when it returns an error no descriptor is left open, also when the setup
\* call had succeeded and the mapping failed.
C20_AllOrNothing ==
    newPc = "done" =>
        \/ newRing = "ring" /\ newErr = Nil
        \/ newRing = "nil" /\ newErr # Nil /\ ~fdOpen

====
